---------------------------- MODULE Spec2Model ----------------------------
(***************************************************************************)
(* Model of the permission review reminder (src/main.py): configuration   *)
(* loading and validation, schedule set-up through the `schedule` library, *)
(* the polling loop, and the test-email mode.                              *)
(*                                                                         *)
(* A JSON value is a record tagged by its Python type in field t:          *)
(*   [t |-> "null"]            None                                        *)
(*   [t |-> "bool", bv]        bool                                        *)
(*   [t |-> "int", iv]         int                                         *)
(*   [t |-> "float", fk, tenths]  float: fk is "finite", "nan" or "inf";   *)
(*                             a finite float is tenths / 10               *)
(*   [t |-> "str", sv]         str: a sequence of segments; a schedule     *)
(*                             string is cut at its dots, an e-mail        *)
(*                             address around its "@", a number at digits  *)
(*   [t |-> "list", items]     list                                        *)
(*   [t |-> "dict", d]         dict: a function from keys to values        *)
(***************************************************************************)
EXTENDS Integers, Sequences, FiniteSets, TLC

----------------------------------------------------------------------------
(* JSON values *)

JNull == [t |-> "null"]

JBool(b) == [t |-> "bool", bv |-> b]

JInt(n) == [t |-> "int", iv |-> n]

JFloat(k, n) == [t |-> "float", fk |-> k, tenths |-> n]

JStr(segs) == [t |-> "str", sv |-> segs]

JList(xs) == [t |-> "list", items |-> xs]

JDict(f) == [t |-> "dict", d |-> f]

\* isinstance(v, T)
IsInstance(v, T) == v.t = T

\* `seg in s` for a str s, at the granularity of segments
StrContains(s, seg) == \E i \in DOMAIN s.sv : s.sv[i] = seg

\* `key in v` (main.py line 78 applies it to whatever json.load returned):
\* membership in a dict's keys, in a list's items, substring of a str, and a
\* TypeError on anything else.
InRaises(v) == v.t \notin {"dict", "list", "str"}

KeyIn(key, v) ==
    CASE v.t = "dict" -> key \in DOMAIN v.d
      [] v.t = "list" -> \E i \in DOMAIN v.items :
                            /\ v.items[i].t = "str"
                            /\ v.items[i].sv = <<key>>
      [] v.t = "str"  -> StrContains(v, key)
      [] OTHER        -> FALSE

----------------------------------------------------------------------------
(* Exceptions: exc is the Python class, msg the message, arg what the      *)
(* message names.                                                          *)

NoError == [exc |-> "none", msg |-> "", arg |-> ""]

Raise(e, m, a) == [exc |-> e, msg |-> m, arg |-> a]

ValueError(m, a) == Raise("ValueError", m, a)

TypeError(m) == Raise("TypeError", m, "")

\* The first error of a sequence of checks (the checks run in order and the
\* first raise leaves the function).
RECURSIVE FirstError(_)
FirstError(errs) ==
    IF errs = <<>> THEN NoError
    ELSE IF Head(errs).exc # "none" THEN Head(errs)
    ELSE FirstError(Tail(errs))

----------------------------------------------------------------------------
(* int(x), main.py line 112 *)

Digits == <<"0", "1", "2", "3", "4", "5", "6", "7", "8", "9">>

IsDigit(c) == \E i \in DOMAIN Digits : Digits[i] = c

DigitValue(c) == (CHOOSE i \in DOMAIN Digits : Digits[i] = c) - 1

RECURSIVE DigitsValue(_)
DigitsValue(cs) ==
    IF cs = <<>> THEN 0
    ELSE 10 * DigitsValue(SubSeq(cs, 1, Len(cs) - 1)) + DigitValue(cs[Len(cs)])

\* A str is an int literal when it is an optional sign and then digits only.
IsIntLiteral(cs) ==
    LET body == IF cs # <<>> /\ Head(cs) \in {"-", "+"} THEN Tail(cs) ELSE cs
    IN  /\ body # <<>>
        /\ \A i \in DOMAIN body : IsDigit(body[i])

IntLiteralValue(cs) ==
    IF Head(cs) = "-" THEN 0 - DigitsValue(Tail(cs))
    ELSE IF Head(cs) = "+" THEN DigitsValue(Tail(cs))
    ELSE DigitsValue(cs)

\* float -> int truncates towards zero
Truncate(tenths) ==
    IF tenths >= 0 THEN tenths \div 10 ELSE 0 - ((0 - tenths) \div 10)

\* The exception int(v) raises, or NoError.
IntError(v) ==
    CASE v.t \in {"int", "bool"} -> NoError
      [] v.t = "float" ->
            CASE v.fk = "finite" -> NoError
              [] v.fk = "nan" -> ValueError("cannot convert float NaN to integer", "")
              [] OTHER -> Raise("OverflowError", "cannot convert float infinity to integer", "")
      [] v.t = "str" ->
            IF IsIntLiteral(v.sv) THEN NoError
            ELSE ValueError("invalid literal for int() with base 10", "")
      [] OTHER -> TypeError("int() argument must be a string, a bytes-like object or a real number")

\* The value of int(v) when it raises nothing.
IntValue(v) ==
    CASE v.t = "int" -> v.iv
      [] v.t = "bool" -> IF v.bv THEN 1 ELSE 0
      [] v.t = "float" -> Truncate(v.tenths)
      [] OTHER -> IntLiteralValue(v.sv)

----------------------------------------------------------------------------
(* validate_config, main.py lines 64-118 *)

required_keys ==
    <<"permissions_to_review", "reviewers", "smtp_server", "smtp_port", "sender_email">>

required_permission_keys == <<"description", "permission_details", "review_schedule">>

required_reviewer_keys == <<"name", "email">>

\* for key in keys: if key not in v: raise ValueError(msg + key)
MissingKeyError(keys, v, msg) ==
    FirstError([i \in DOMAIN keys |->
        IF InRaises(v) THEN TypeError("argument is not iterable")
        ELSE IF ~KeyIn(keys[i], v) THEN ValueError(msg, keys[i])
        ELSE NoError])

\* v[key] on a value that passed the `in` checks: a list or a str raises.
SubscriptError(v) ==
    IF v.t = "dict" THEN NoError ELSE TypeError("indices must be integers")

\* The body of the loop over permissions_to_review, lines 85-94.
PermissionEntryError(permission) ==
    IF ~IsInstance(permission, "dict")
    THEN ValueError("Each permission entry in permissions_to_review must be a dictionary.", "")
    ELSE FirstError(<<
        MissingKeyError(required_permission_keys, permission, "Missing required key in permission: "),
        IF "permission_details" \in DOMAIN permission.d
              /\ ~IsInstance(permission.d["permission_details"], "dict")
        THEN ValueError("permission_details must be a dictionary", "") ELSE NoError,
        IF "review_schedule" \in DOMAIN permission.d
              /\ ~IsInstance(permission.d["review_schedule"], "str")
        THEN ValueError("review_schedule must be a string", "") ELSE NoError >>)

\* Lines 81-94.
PermissionsError(v) ==
    IF ~IsInstance(v, "list")
    THEN ValueError("permissions_to_review must be a list of dictionaries.", "")
    ELSE FirstError([i \in DOMAIN v.items |-> PermissionEntryError(v.items[i])])

\* The body of the loop over reviewers, lines 100-107.
ReviewerEntryError(reviewer) ==
    IF ~IsInstance(reviewer, "dict")
    THEN ValueError("Each reviewer entry in reviewers must be a dictionary.", "")
    ELSE FirstError(<<
        MissingKeyError(required_reviewer_keys, reviewer, "Missing required key in reviewer: "),
        IF "email" \in DOMAIN reviewer.d
              /\ (~IsInstance(reviewer.d["email"], "str")
                    \/ ~StrContains(reviewer.d["email"], "@"))
        THEN ValueError("Reviewer email must be a valid email address.", "") ELSE NoError >>)

\* Lines 96-107.
ReviewersError(v) ==
    IF ~IsInstance(v, "list")
    THEN ValueError("reviewers must be a list of dictionaries.", "")
    ELSE FirstError([i \in DOMAIN v.items |-> ReviewerEntryError(v.items[i])])

\* Lines 109-110.
SmtpServerError(v) ==
    IF ~IsInstance(v, "str") THEN ValueError("smtp_server must be a string.", "")
    ELSE NoError

\* 0 < port < 65535, line 113
PortInRange(port) == 0 < port /\ port < 65535

\* Lines 111-116: the try block catches ValueError only, and raises
\* ValueError again; any other exception of int() leaves validate_config.
SmtpPortError(v) ==
    LET e == IntError(v)
    IN  IF e.exc = "ValueError"
        THEN ValueError("smtp_port must be an integer between 1 and 65535", "")
        ELSE IF e.exc # "none" THEN e
        ELSE IF ~PortInRange(IntValue(v))
        THEN ValueError("smtp_port must be an integer between 1 and 65535", "")
        ELSE NoError

\* Lines 117-118.
SenderEmailError(v) ==
    IF ~IsInstance(v, "str") \/ ~StrContains(v, "@")
    THEN ValueError("Sender email must be a valid email address.", "")
    ELSE NoError

\* validate_config(config): NoError when it returns, else what it raises.
validate_config(config) ==
    LET missing == MissingKeyError(required_keys, config, "Missing required configuration key: ")
    IN  IF missing.exc # "none" THEN missing
        ELSE IF SubscriptError(config).exc # "none" THEN SubscriptError(config)
        ELSE FirstError(<<
            PermissionsError(config.d["permissions_to_review"]),
            ReviewersError(config.d["reviewers"]),
            SmtpServerError(config.d["smtp_server"]),
            SmtpPortError(config.d["smtp_port"]),
            SenderEmailError(config.d["sender_email"]) >>)

----------------------------------------------------------------------------
(* The `schedule` library as main.py uses it: line 201 evaluates           *)
(*     eval(f"schedule.{schedule_string}.do(job)")                         *)
(* and line 244 calls schedule.run_pending().  The expression is an        *)
(* attribute chain on the module; each segment of the schedule string is   *)
(* one attribute access or call of that chain.                             *)
(* Time is in seconds since a Monday 00:00.                                *)

MinuteSeconds == 60

HourSeconds == 60 * MinuteSeconds

DaySeconds == 24 * HourSeconds

WeekSeconds == 7 * DaySeconds

\* every(interval=1): the calls the model's configurations use
EveryCalls ==
    ("every()" :> 1) @@ ("every(2)" :> 2) @@ ("every(30)" :> 30) @@ ("every(45)" :> 45)

\* Job.seconds, Job.minutes, ...: the unit of timedelta(**{unit: interval})
UnitSeconds ==
    ("seconds" :> 1) @@ ("minutes" :> MinuteSeconds) @@ ("hours" :> HourSeconds)
        @@ ("days" :> DaySeconds) @@ ("weeks" :> WeekSeconds)

PluralUnits == DOMAIN UnitSeconds

\* Job.second, Job.minute, ...: allowed with interval 1 only
SingularUnits ==
    ("second" :> "seconds") @@ ("minute" :> "minutes") @@ ("hour" :> "hours")
        @@ ("day" :> "days") @@ ("week" :> "weeks")

\* Job.monday, ...: datetime.weekday() numbers Monday 0
Weekdays ==
    ("monday" :> 0) @@ ("tuesday" :> 1) @@ ("wednesday" :> 2) @@ ("thursday" :> 3)
        @@ ("friday" :> 4) @@ ("saturday" :> 5) @@ ("sunday" :> 6)

\* Job.at(time_str): the time strings the model's configurations use, split at ":"
AtCalls ==
    ("at('09:00')" :> <<9, 0>>) @@ ("at('09:01')" :> <<9, 1>>)

NoJobFunc == <<0, 0>>

\* Job(interval, scheduler): a job that every(interval) returns.  job_func is
\* the function object do() receives: <<i, j>> is the `job` that the i-th
\* permission's and j-th reviewer's iteration of schedule_reviews defined.
NewJob(interval) ==
    [interval |-> interval, unit |-> "", start_day |-> -1, at_time |-> -1,
     next_run |-> -1, job_func |-> NoJobFunc]

\* Job.at: the unit must be days, hours or minutes, or a weekday be set; a
\* two-field time is HH:MM for a daily or weekday job, MM:SS for an hourly
\* one, and no time of a job in minutes.  "" when it raises nothing.
AtError(job, hm) ==
    IF job.unit \notin {"days", "hours", "minutes"} /\ job.start_day = -1
    THEN "ScheduleValueError"
    ELSE IF job.unit = "days" \/ job.start_day # -1
    THEN (IF hm[1] \in 0..23 /\ hm[2] \in 0..59 THEN "" ELSE "ScheduleValueError")
    ELSE IF job.unit = "hours"
    THEN (IF hm[1] \in 0..59 /\ hm[2] \in 0..59 THEN "" ELSE "ScheduleValueError")
    ELSE "ScheduleValueError"

\* The at_time Job.at stores, as seconds of the day.
AtTime(job, hm) ==
    IF job.unit = "days" \/ job.start_day # -1
    THEN hm[1] * HourSeconds + hm[2] * MinuteSeconds
    ELSE hm[1] * MinuteSeconds + hm[2]

\* Job._move_to_at_time: the fields of the moment that the unit lets at() set
MoveToAtTime(job, moment) ==
    IF job.unit = "days" \/ job.start_day # -1
    THEN (moment \div DaySeconds) * DaySeconds + job.at_time
    ELSE IF job.unit = "hours"
    THEN (moment \div HourSeconds) * HourSeconds + (job.at_time % HourSeconds)
    ELSE (moment \div MinuteSeconds) * MinuteSeconds + (job.at_time % MinuteSeconds)

\* while next_run <= now: next_run += period
RECURSIVE AdvancePast(_, _, _)
AdvancePast(next_run, now, period) ==
    IF next_run <= now THEN AdvancePast(next_run + period, now, period) ELSE next_run

\* Job._schedule_next_run: the next fire time of a job whose unit is set
NextRun(job, now) ==
    LET period == job.interval * UnitSeconds[job.unit]
        weekday == (now \div DaySeconds) % 7
        onDay == IF job.start_day = -1 THEN now
                 ELSE now + ((job.start_day - weekday + 7) % 7) * DaySeconds
        atTime == IF job.at_time = -1 THEN onDay ELSE MoveToAtTime(job, onDay)
        first == IF job.interval # 1 THEN atTime + period ELSE atTime
    IN  AdvancePast(first, now, period)

\* Scheduler.clear(): the job table after schedule.clear()
ClearedJobs(jobs) == <<>>

\* The state of the evaluation of the chain: exc is the exception raised ("" so
\* far none), kind what the chain has evaluated to ("module", "job" or "none"
\* for None), job that Job, jobs the scheduler's job table.
EvalStart(jobs) ==
    [exc |-> "", kind |-> "module", job |-> NewJob(1), jobs |-> jobs]

\* One attribute access or call of the chain.
EvalSegment(st, seg) ==
    IF st.exc # "" THEN st
    ELSE IF st.kind = "module"
    THEN CASE seg \in DOMAIN EveryCalls ->
                [st EXCEPT !.kind = "job", !.job = NewJob(EveryCalls[seg])]
           [] seg = "clear()" ->
                [st EXCEPT !.kind = "none", !.jobs = ClearedJobs(st.jobs)]
           [] OTHER -> [st EXCEPT !.exc = "AttributeError"]
    ELSE IF st.kind = "job"
    THEN CASE seg \in PluralUnits -> [st EXCEPT !.job.unit = seg]
           [] seg \in DOMAIN SingularUnits ->
                IF st.job.interval # 1 THEN [st EXCEPT !.exc = "IntervalError"]
                ELSE [st EXCEPT !.job.unit = SingularUnits[seg]]
           [] seg \in DOMAIN Weekdays ->
                IF st.job.interval # 1 THEN [st EXCEPT !.exc = "IntervalError"]
                ELSE [st EXCEPT !.job.unit = "weeks", !.job.start_day = Weekdays[seg]]
           [] seg \in DOMAIN AtCalls ->
                IF AtError(st.job, AtCalls[seg]) # ""
                THEN [st EXCEPT !.exc = AtError(st.job, AtCalls[seg])]
                ELSE [st EXCEPT !.job.at_time = AtTime(st.job, AtCalls[seg])]
           [] seg = "tag('x')" -> st
           [] OTHER -> [st EXCEPT !.exc = "AttributeError"]
    ELSE [st EXCEPT !.exc = "AttributeError"]

\* Job.do(job_func): schedules the first run and appends the job to the
\* scheduler's table; a job without a unit raises before it is appended.
Do(st, job_func, now) ==
    IF st.exc # "" THEN st
    ELSE IF st.kind # "job" THEN [st EXCEPT !.exc = "AttributeError"]
    ELSE IF st.job.unit \notin PluralUnits THEN [st EXCEPT !.exc = "ScheduleValueError"]
    ELSE LET j == [st.job EXCEPT !.job_func = job_func, !.next_run = NextRun(st.job, now)]
         IN  [st EXCEPT !.job = j, !.jobs = Append(st.jobs, j)]

RECURSIVE EvalChain(_, _)
EvalChain(st, segs) ==
    IF segs = <<>> THEN st ELSE EvalChain(EvalSegment(st, Head(segs)), Tail(segs))

\* eval(f"schedule.{schedule_string}.do(job)"), main.py line 201
Eval(schedule_string, job_func, jobs, now) ==
    Do(EvalChain(EvalStart(jobs), schedule_string.sv), job_func, now)

----------------------------------------------------------------------------
(* Notification: send_email, create_review_task, send_test_email *)

\* What the SMTP transport does with one message: "ok", an smtplib.SMTPException
\* or another exception (a refused connection is an OSError).
SendOutcomes == {"ok", "SMTPException", "OSError"}

\* send_email, lines 121-147: the message handed to the transport, the
\* exception that leaves the function ("" for none) and its log lines.
send_email(subject, body, recipient, smtp_server, smtp_port, sender_email, outcome) ==
    [msg |-> [subject |-> subject, body |-> body, to |-> recipient, from |-> sender_email,
              server |-> smtp_server, port |-> smtp_port],
     exc |-> IF outcome = "ok" THEN "" ELSE outcome,
     log |-> CASE outcome = "ok" -> <<"INFO Email sent successfully">>
               [] outcome = "SMTPException" -> <<"ERROR Error sending email">>
               [] OTHER -> <<>>]

\* create_review_task without its except clause
create_review_task_uncaught(permission, reviewer, smtp_server, smtp_port, sender_email, outcome) ==
    LET sent == send_email(<<"Permission Review Required: ", permission.d["description"]>>,
                           <<reviewer.d["name"], permission.d["description"],
                             permission.d["permission_details"]>>,
                           reviewer.d["email"], smtp_server, smtp_port, sender_email, outcome)
    IN  [msg |-> sent.msg, exc |-> sent.exc, log |-> sent.log]

\* create_review_task, lines 150-181: the except clause catches Exception,
\* logs it and returns.
create_review_task(permission, reviewer, smtp_server, smtp_port, sender_email, outcome) ==
    LET subject == <<"Permission Review Required: ", permission.d["description"]>>
        body == <<reviewer.d["name"], permission.d["description"],
                  permission.d["permission_details"]>>
        sent == send_email(subject, body, reviewer.d["email"],
                           smtp_server, smtp_port, sender_email, outcome)
    IN  [msg |-> sent.msg,
         exc |-> "",
         log |-> IF sent.exc = "" THEN sent.log
                 ELSE Append(sent.log, "ERROR Failed to send email")]

\* The test e-mail sent to the first reviewer
test_recipient_first_reviewer(config) ==
    IF config.d["reviewers"].items = <<>> THEN config.d["sender_email"]
    ELSE config.d["reviewers"].items[1].d["email"]

\* The recipient of the test e-mail, line 216
test_recipient(config) == config.d["sender_email"]

\* send_test_email, lines 207-224
send_test_email(config, outcome) ==
    LET sent == send_email(<<"Test Email from Permission Review Tool">>,
                           <<"This is a test email">>, test_recipient(config),
                           config.d["smtp_server"], config.d["smtp_port"],
                           config.d["sender_email"], outcome)
    IN  [msg |-> sent.msg,
         exc |-> "",
         console |-> IF sent.exc = "" THEN <<"Test email sent successfully. Check your inbox.">>
                     ELSE <<"Failed to send test email">>,
         log |-> IF sent.exc = "" THEN sent.log
                 ELSE Append(sent.log, "ERROR Failed to send test email")]

----------------------------------------------------------------------------
(* schedule_reviews, lines 184-204 *)

Permissions(config) == config.d["permissions_to_review"].items

Reviewers(config) == config.d["reviewers"].items

\* The k-th iteration of the nested loops is permission PairI, reviewer PairJ.
PairI(config, k) == ((k - 1) \div Len(Reviewers(config))) + 1

PairJ(config, k) == ((k - 1) % Len(Reviewers(config))) + 1

\* The function object that `def job()` creates in an iteration
JobFunc(i, j) == <<i, j>>

\* An iteration that registers a job for the first reviewer only
ScheduleIteration_first_reviewer(config, i, j, jobs, now) ==
    LET r == Eval(Permissions(config)[i].d["review_schedule"], JobFunc(i, j), jobs, now)
    IN  [jobs |-> IF j = 1 THEN r.jobs ELSE jobs,
         log |-> [level |-> IF r.exc = "" THEN "INFO" ELSE "ERROR",
                  description |-> Permissions(config)[i].d["description"],
                  name |-> Reviewers(config)[j].d["name"]]]

\* Lines 193-204, one iteration: what eval left of the job table, and the log line.
ScheduleIteration(config, i, j, jobs, now) ==
    LET permission == Permissions(config)[i]
        reviewer == Reviewers(config)[j]
        r == Eval(permission.d["review_schedule"], JobFunc(i, j), jobs, now)
    IN  [jobs |-> r.jobs,
         log |-> [level |-> IF r.exc = "" THEN "INFO" ELSE "ERROR",
                  description |-> permission.d["description"],
                  name |-> reviewer.d["name"]]]

RECURSIVE ScheduleLoop(_, _, _, _, _)
ScheduleLoop(config, k, jobs, log, now) ==
    IF k > Len(Permissions(config)) * Len(Reviewers(config)) THEN [jobs |-> jobs, log |-> log]
    ELSE LET it == ScheduleIteration(config, PairI(config, k), PairJ(config, k), jobs, now)
         IN  ScheduleLoop(config, k + 1, it.jobs, Append(log, it.log), now)

\* The variables `permission` and `reviewer` of schedule_reviews, which every
\* `job` closure reads when it is called: after the loops they hold the last
\* permission and the last reviewer iterated (0: never bound).
LastPermission(config) == Len(Permissions(config))

LastReviewer(config) ==
    IF Len(Permissions(config)) = 0 THEN 0 ELSE Len(Reviewers(config))

\* job(), line 196, called by the scheduler: the permission and the reviewer it
\* passes to create_review_task, read from the closure's variables at the call.
JobPermission(job_func, permission_cell) == permission_cell

JobReviewer(job_func, reviewer_cell) == reviewer_cell

----------------------------------------------------------------------------
(* Scheduler.run_pending, called at line 244 *)

\* Job.should_run
ShouldRun(job, now) == now >= job.next_run

\* The positions of the job table whose jobs should run, in table order
RunnableJobs(jobs, now) ==
    LET F[n \in 0..Len(jobs)] ==
            IF n = 0 THEN <<>>
            ELSE IF ShouldRun(jobs[n], now) THEN Append(F[n - 1], n) ELSE F[n - 1]
    IN  F[Len(jobs)]

\* sorted(): a stable sort by Job.__lt__, which compares next_run
RECURSIVE InsertSorted(_, _, _)
InsertSorted(jobs, sorted, n) ==
    IF sorted = <<>> THEN <<n>>
    ELSE IF jobs[n].next_run < jobs[Head(sorted)].next_run THEN <<n>> \o sorted
    ELSE <<Head(sorted)>> \o InsertSorted(jobs, Tail(sorted), n)

RECURSIVE SortedReversed(_, _)
SortedReversed(jobs, rev) ==
    IF rev = <<>> THEN <<>>
    ELSE InsertSorted(jobs, SortedReversed(jobs, Tail(rev)), Head(rev))

Reverse(s) == [i \in 1..Len(s) |-> s[Len(s) + 1 - i]]

\* The runnable jobs left in table order
PendingJobs_unsorted(jobs, now) == RunnableJobs(jobs, now)

\* for job in sorted(runnable_jobs)
PendingJobs(jobs, now) == SortedReversed(jobs, Reverse(RunnableJobs(jobs, now)))

----------------------------------------------------------------------------
(* main, lines 227-258: the except clauses *)

\* What main prints for an exception raised inside its try block
MainConsole(exc) ==
    CASE exc = "FileNotFoundError" -> "Error: Configuration file not found"
      [] exc = "JSONDecodeError" -> "Error: Invalid JSON in configuration file"
      [] exc = "ValueError" -> "Error: Invalid configuration"
      [] OTHER -> "An unexpected error occurred"

\* An `except Exception` clause that does not exit
MainExitCode_unexpected_returns(exc) ==
    IF exc \in {"FileNotFoundError", "JSONDecodeError", "ValueError"} THEN 1 ELSE 0

\* The status every except clause of main passes to exit()
MainExitCode(exc) == 1

\* The status of a process whose main returns
ReturnCode == 0

\* time.sleep(60), line 245
PollInterval == 60

----------------------------------------------------------------------------
(* The configurations checked *)

MaxPermissions == 2

MaxReviewers == 2

MaxTicks == 3

\* The times at which the process starts: Monday 08:59:30, Tuesday 09:00:00
\* and Sunday 23:59:30
StartClocks ==
    { 8 * HourSeconds + 59 * MinuteSeconds + 30,
      DaySeconds + 9 * HourSeconds,
      6 * DaySeconds + 23 * HourSeconds + 59 * MinuteSeconds + 30 }

Addr(user) == JStr(<<user, "@", "example.com">>)

Reviewer(n) == JDict([name |-> JStr(<<n>>), email |-> Addr(n)])

ReviewerNames == <<"alice", "bob", "carol", "dave">>

ReviewerLists ==
    {[j \in 1..n |-> Reviewer(ReviewerNames[j])] : n \in 0..MaxReviewers}

Descriptions == <<"prod-db-admin", "s3-write", "vpn-access", "billing-read">>

Permission(i, schedule) ==
    JDict([description |-> JStr(<<Descriptions[i]>>),
           permission_details |-> JDict([k \in {"role"} |-> JStr(<<"admin">>)]),
           review_schedule |-> JStr(schedule)])

\* review_schedule strings, cut at their dots: expressions of the recurrence
\* grammar that the library accepts, one that it rejects, and strings that are
\* no expression of the grammar.
GrammarSchedules ==
    { <<"every(45)", "seconds">>,
      <<"every(30)", "seconds">>,
      <<"every()", "monday", "at('09:00')">>,
      <<"every()", "days", "at('09:01')">>,
      <<"every(2)", "monday">> }

OtherSchedules ==
    { <<"fortnightly">>,
      <<"every()", "day", "tag('x')">>,
      <<"clear()", "bogus">> }

Schedules == GrammarSchedules \cup OtherSchedules

PermissionLists ==
    UNION {{[i \in 1..n |-> Permission(i, f[i])] : f \in [1..n -> Schedules]} :
            n \in 0..MaxPermissions}

Config(permissions, reviewers, server, port, sender) ==
    JDict([permissions_to_review |-> permissions, reviewers |-> reviewers,
           smtp_server |-> server, smtp_port |-> port, sender_email |-> sender])

\* Valid documents: every list of permissions with every list of reviewers
SchedulingConfigs ==
    {Config(JList(ps), JList(rs), JStr(<<"localhost">>), JInt(25), Addr("review")) :
        ps \in PermissionLists, rs \in ReviewerLists}

GoodPermissions == JList(<<Permission(1, <<"every()", "day">>)>>)

GoodReviewers == JList(<<Reviewer("alice")>>)

PermissionsValues ==
    { GoodPermissions, JNull, JList(<<JInt(1)>>),
      JList(<<JDict([description |-> JStr(<<"x">>)])>>),
      JList(<<JDict([description |-> JStr(<<"x">>), permission_details |-> JNull,
                     review_schedule |-> JStr(<<"every()", "day">>)])>>),
      JList(<<JDict([description |-> JStr(<<"x">>),
                     permission_details |-> JDict([k \in {} |-> JNull]),
                     review_schedule |-> JInt(5)])>>) }

ReviewersValues ==
    { GoodReviewers, JNull, JList(<<JStr(<<"alice">>)>>),
      JList(<<JDict([name |-> JStr(<<"alice">>)])>>),
      JList(<<JDict([name |-> JStr(<<"alice">>), email |-> JInt(7)])>>),
      JList(<<JDict([name |-> JStr(<<"alice">>), email |-> JStr(<<"alice.example.com">>)])>>) }

ServerValues == { JStr(<<"localhost">>), JInt(127) }

PortValues ==
    { JInt(25), JInt(1), JInt(65534), JInt(0), JInt(65535), JInt(-1), JInt(70000),
      JStr(<<"2", "5">>), JStr(<<"-", "1">>), JStr(<<"s", "m", "t", "p">>), JStr(<<>>),
      JNull, JList(<<>>), JBool(TRUE), JBool(FALSE),
      JFloat("finite", 257), JFloat("finite", 5), JFloat("nan", 0), JFloat("inf", 0) }

SenderValues == { Addr("review"), JStr(<<"review">>), JNull }

\* Documents with all five keys and any mix of good and bad values
ValueConfigs ==
    {Config(ps, rs, sv, po, se) :
        ps \in PermissionsValues, rs \in ReviewersValues, sv \in ServerValues,
        po \in PortValues, se \in SenderValues}

FullConfig ==
    Config(GoodPermissions, GoodReviewers, JStr(<<"localhost">>), JInt(25), Addr("review")).d

\* Documents with some of the five keys missing, and one of them with a bad value
MissingKeyConfigs ==
    {JDict([k \in ks |-> IF k = bad THEN JNull ELSE FullConfig[k]]) :
        ks \in SUBSET DOMAIN FullConfig, bad \in DOMAIN FullConfig \cup {""}}

\* Documents that are not a JSON object
OtherDocuments ==
    { JNull, JInt(5), JBool(TRUE), JList(<<>>),
      JList([i \in DOMAIN required_keys |-> JStr(<<required_keys[i]>>)]),
      JStr(required_keys) }

Documents == SchedulingConfigs \cup ValueConfigs \cup MissingKeyConfigs \cup OtherDocuments

----------------------------------------------------------------------------
(* The process *)

NoFailure == [tick |-> 0, place |-> 0]

VARIABLES
    pc,          \* where main is: "start", "loaded", "validated", "run_pending",
                 \* "run_job", "exited"
    test_email,  \* args.test_email
    file,        \* the file at args.config: "missing", "malformed" or "json"
    config,      \* what json.load returns for it
    error,       \* the exception that ended main's try block, or NoError
    console,     \* what main and send_test_email printed
    exit_code,   \* the process's exit status, -1 while it runs
    jobs,        \* schedule.jobs, the default scheduler's job table
    permission,  \* the closures' variable `permission` (a position, 0 unbound)
    reviewer,    \* the closures' variable `reviewer`
    setup_log,   \* the log lines of schedule_reviews
    start,       \* datetime.now() when the process started
    clock,       \* datetime.now()
    ticks,       \* the calls of run_pending started
    due,         \* the job table as the current run_pending found it
    pending,     \* the current run_pending's sorted(runnable_jobs), as positions
    ran,         \* how many of them it has run
    calls,       \* the create_review_task calls of the current run_pending
    outcome,     \* the outcome of the last send_email call, "" before any
    failed,      \* the last send_email call of a job that failed: the run_pending
                 \* it was in and its place among that run's jobs (0, 0: none)
    sent,        \* the send_email calls so far
    log          \* the log lines of the last send_email call and its caller

vars ==
    <<pc, test_email, file, config, error, console, exit_code, jobs, permission,
      reviewer, setup_log, start, clock, ticks, due, pending, ran, calls, outcome,
      failed, sent, log>>

schedVars ==
    <<jobs, permission, reviewer, setup_log, start, clock, ticks, due, pending, ran,
      calls, outcome, failed, log>>

Init ==
    /\ pc = "start"
    /\ test_email \in BOOLEAN
    /\ \/ file \in {"missing", "malformed"} /\ config = JNull
       \/ file = "json" /\ config \in Documents
    /\ error = NoError
    /\ console = <<>>
    /\ exit_code = -1
    /\ jobs = <<>>
    /\ permission = 0
    /\ reviewer = 0
    /\ setup_log = <<>>
    \* the time matters only to a process that gets to schedule
    /\ start \in IF ~test_email /\ file = "json" /\ validate_config(config).exc = "none"
                 THEN StartClocks
                 ELSE {CHOOSE t \in StartClocks : \A u \in StartClocks : t <= u}
    /\ clock = start
    /\ ticks = 0
    /\ due = <<>>
    /\ pending = <<>>
    /\ ran = 0
    /\ calls = <<>>
    /\ outcome = ""
    /\ failed = NoFailure
    /\ sent = <<>>
    /\ log = <<>>

\* An exception reaches main's except clauses: print, exit(1).
Exit(e) ==
    /\ pc' = "exited"
    /\ error' = e
    /\ console' = Append(console, MainConsole(e.exc))
    /\ exit_code' = MainExitCode(e.exc)

\* load_config(args.config), lines 37-61 and 235
LoadConfig ==
    /\ pc = "start"
    /\ CASE file = "missing" -> Exit(Raise("FileNotFoundError", "", ""))
         [] file = "malformed" -> Exit(Raise("JSONDecodeError", "", ""))
         [] OTHER -> pc' = "loaded" /\ UNCHANGED <<error, console, exit_code>>
    /\ UNCHANGED <<test_email, file, config, sent>>
    /\ UNCHANGED schedVars

\* validate_config(config), line 236
ValidateConfig ==
    /\ pc = "loaded"
    /\ IF validate_config(config).exc # "none"
       THEN Exit(validate_config(config))
       ELSE pc' = "validated" /\ UNCHANGED <<error, console, exit_code>>
    /\ UNCHANGED <<test_email, file, config, sent>>
    /\ UNCHANGED schedVars

\* Lines 238-239: send_test_email, after which main returns
SendTestEmail ==
    /\ pc = "validated"
    /\ test_email
    /\ \E o \in SendOutcomes :
        LET r == send_test_email(config, o)
        IN  /\ sent' = Append(sent, r.msg)
            /\ log' = r.log
            /\ console' = console \o r.console
            /\ outcome' = o
            /\ IF r.exc = ""
               THEN pc' = "exited" /\ exit_code' = ReturnCode /\ error' = error
               ELSE pc' = "exited" /\ exit_code' = MainExitCode(r.exc)
                        /\ error' = Raise(r.exc, "", "")
    /\ UNCHANGED <<test_email, file, config, jobs, permission, reviewer, setup_log,
                   start, clock, ticks, due, pending, ran, calls, failed>>

\* Line 241: schedule_reviews(config)
ScheduleReviews ==
    /\ pc = "validated"
    /\ ~test_email
    /\ LET r == ScheduleLoop(config, 1, jobs, <<>>, clock)
       IN  /\ jobs' = r.jobs
           /\ setup_log' = r.log
    /\ permission' = LastPermission(config)
    /\ reviewer' = LastReviewer(config)
    /\ pc' = "run_pending"
    /\ UNCHANGED <<test_email, file, config, error, console, exit_code, start, clock,
                   ticks, due, pending, ran, calls, outcome, failed, sent, log>>

\* Line 244, schedule.run_pending(): the runnable jobs are collected and sorted
\* before the first of them runs.
RunPending ==
    /\ pc = "run_pending"
    /\ ticks < MaxTicks
    /\ ticks' = ticks + 1
    /\ due' = jobs
    /\ pending' = PendingJobs(jobs, clock)
    /\ ran' = 0
    /\ calls' = <<>>
    /\ pc' = "run_job"
    /\ UNCHANGED <<test_email, file, config, error, console, exit_code, jobs,
                   permission, reviewer, setup_log, start, clock, outcome, failed, sent,
                   log>>

\* Scheduler._run_job of the next pending job: Job.run calls job(), which calls
\* create_review_task, and then schedules the job's next run.  An exception
\* of the job leaves run_pending and reaches main's except clauses.
RunJob ==
    /\ pc = "run_job"
    /\ ran < Len(pending)
    /\ \E o \in SendOutcomes :
        LET n == pending[ran + 1]
            f == jobs[n].job_func
            p == JobPermission(f, permission)
            r == JobReviewer(f, reviewer)
            task == create_review_task(Permissions(config)[p], Reviewers(config)[r],
                        config.d["smtp_server"], config.d["smtp_port"],
                        config.d["sender_email"], o)
        IN  /\ calls' = Append(calls, [job |-> n, job_func |-> f, permission |-> p, reviewer |-> r])
            /\ sent' = Append(sent, task.msg)
            /\ log' = task.log
            /\ outcome' = o
            /\ failed' = IF o = "ok" THEN failed ELSE [tick |-> ticks, place |-> ran + 1]
            /\ ran' = ran + 1
            /\ IF task.exc = ""
               THEN /\ jobs' = [jobs EXCEPT ![n].next_run = NextRun(jobs[n], clock)]
                    /\ pc' = "run_job"
                    /\ UNCHANGED <<error, console, exit_code>>
               ELSE /\ jobs' = jobs
                    /\ Exit(Raise(task.exc, "", ""))
    /\ UNCHANGED <<test_email, file, config, permission, reviewer, setup_log, start,
                   clock, ticks, due, pending>>

\* Line 245: run_pending has returned; time.sleep(60)
Sleep ==
    /\ pc = "run_job"
    /\ ran = Len(pending)
    /\ clock' = clock + PollInterval
    /\ pc' = "run_pending"
    /\ UNCHANGED <<test_email, file, config, error, console, exit_code, jobs,
                   permission, reviewer, setup_log, start, ticks, due, pending, ran,
                   calls, outcome, failed, sent, log>>

Next ==
    \/ LoadConfig
    \/ ValidateConfig
    \/ SendTestEmail
    \/ ScheduleReviews
    \/ RunPending
    \/ RunJob
    \/ Sleep

Spec == Init /\ [][Next]_vars

----------------------------------------------------------------------------
(* Properties *)

\* schedule_reviews has returned
SetupDone == pc \in {"run_pending", "run_job"}

\* run_pending has run its last pending job and returned
TickDone == pc = "run_job" /\ ran = Len(pending)

\* The pairs schedule_reviews iterates over
Pairs ==
    IF config.t = "dict" /\ validate_config(config).exc = "none"
    THEN (1..Len(Permissions(config))) \X (1..Len(Reviewers(config)))
    ELSE {}

ScheduleOf(i) == Permissions(config)[i].d["review_schedule"].sv

\* The positions of the job table that hold the job of pair <<i, j>>
JobsOf(table, i, j) == {n \in DOMAIN table : table[n].job_func = <<i, j>>}

\* The recurrence grammar of the specification:
\*   every(<optional integer>) . <unit> [ . at(<time>) ]
InGrammar(segs) ==
    /\ Len(segs) \in {2, 3}
    /\ segs[1] \in DOMAIN EveryCalls
    /\ segs[2] \in PluralUnits \cup DOMAIN SingularUnits \cup DOMAIN Weekdays
    /\ Len(segs) = 3 => segs[3] \in DOMAIN AtCalls

\* An expression of the grammar from which the library builds a trigger
Parses(segs) ==
    /\ InGrammar(segs)
    /\ Eval(JStr(segs), NoJobFunc, <<>>, clock).exc = ""

\* A review_schedule whose evaluation raises
Raises(segs) == Eval(JStr(segs), NoJobFunc, <<>>, clock).exc # ""

\* C1: every job fired by the run loop calls create_review_task with the
\* permission and the reviewer of the pair it was registered for.
C1_JobUsesItsOwnPair ==
    \A k \in DOMAIN calls :
        /\ calls[k].permission = calls[k].job_func[1]
        /\ calls[k].reviewer = calls[k].job_func[2]

\* C2: for a review_schedule that is no expression of the recurrence grammar,
\* schedule_reviews registers no job for the pair and its iteration leaves the
\* job table as it was, and no pair ever has more than one job.
C2_OnlyGrammarSchedulesRegister ==
    SetupDone =>
        \A pr \in Pairs :
            /\ ~InGrammar(ScheduleOf(pr[1])) =>
                /\ JobsOf(jobs, pr[1], pr[2]) = {}
                /\ ScheduleIteration(config, pr[1], pr[2], jobs, clock).jobs = jobs
            /\ Cardinality(JobsOf(jobs, pr[1], pr[2])) <= 1

\* C3: when every permission's review_schedule parses, the job table after
\* schedule_reviews holds exactly |permissions| x |reviewers| jobs, one for each
\* pair.
C3_OneJobPerPair ==
    (SetupDone /\ \A i \in DOMAIN Permissions(config) : Parses(ScheduleOf(i))) =>
        /\ Len(jobs) = Len(Permissions(config)) * Len(Reviewers(config))
        /\ \A pr \in Pairs : Cardinality(JobsOf(jobs, pr[1], pr[2])) = 1

C3_Witness ==
    /\ SetupDone
    /\ Len(Permissions(config)) = 2
    /\ Len(Reviewers(config)) = 2
    /\ \A i \in DOMAIN Permissions(config) : Parses(ScheduleOf(i))
    /\ Len(jobs) = 4

\* C4: a review_schedule that fails to parse makes schedule_reviews skip that
\* pair only: the failure is logged, schedule_reviews returns, and every pair
\* whose review_schedule parses has its job in the table, wherever the failing
\* pair comes in the iteration.
C4_OnlyFailingPairSkipped ==
    (pc \notin {"start", "loaded", "validated"} /\ ~test_email /\ Pairs # {}) =>
        /\ SetupDone
        /\ Len(setup_log) = Cardinality(Pairs)
        /\ \A pr \in Pairs :
            LET k == (pr[1] - 1) * Len(Reviewers(config)) + pr[2]
            IN  IF Parses(ScheduleOf(pr[1]))
                THEN setup_log[k].level = "INFO" /\ JobsOf(jobs, pr[1], pr[2]) # {}
                ELSE Raises(ScheduleOf(pr[1])) => setup_log[k].level = "ERROR"

\* C5: a send_email failure in one due job is caught in create_review_task:
\* the job's action returns and the job is rescheduled, the other jobs due in
\* the same run_pending are still executed, and the loop does not terminate
\* the process.
C5_FailedSendSuppressed ==
    (~test_email /\ failed # NoFailure) =>
        /\ pc \in {"run_job", "run_pending"}
        /\ exit_code = -1
        /\ error = NoError
        /\ (failed.tick = ticks /\ pc = "run_job") =>
            /\ ran >= failed.place
            /\ ran = failed.place =>
                    \E k \in DOMAIN log : log[k] = "ERROR Failed to send email"
            /\ jobs[pending[failed.place]].next_run > clock
            /\ TickDone =>
                /\ Len(calls) = Len(pending)
                /\ \A k \in DOMAIN calls : calls[k].job = pending[k]

\* The first job of a run_pending failed to send, and a later run_pending has
\* run two jobs since.
C5_Witness ==
    /\ ~test_email
    /\ failed.tick >= 1
    /\ failed.place = 1
    /\ ticks = failed.tick + 1
    /\ ran = 2

----------------------------------------------------------------------------
(* The rules of the specification's ConfigValidator, in its order *)

IsMapping(v) == v.t = "dict"

IsSequence(v) == v.t = "list"

HasAt(v) == v.t = "str" /\ \E i \in DOMAIN v.sv : v.sv[i] = "@"

Rule1Violated(c) == ~IsMapping(c) \/ \E i \in DOMAIN required_keys : required_keys[i] \notin DOMAIN c.d

FirstMissingKey(c) ==
    required_keys[CHOOSE i \in DOMAIN required_keys :
        /\ required_keys[i] \notin DOMAIN c.d
        /\ \A h \in 1..(i - 1) : required_keys[h] \in DOMAIN c.d]

Rule2Violated(c) ==
    LET ps == c.d["permissions_to_review"]
    IN  \/ ~IsSequence(ps)
        \/ \E i \in DOMAIN ps.items :
            LET q == ps.items[i]
            IN  \/ ~IsMapping(q)
                \/ {"description", "permission_details", "review_schedule"} \ DOMAIN q.d # {}
                \/ ~IsMapping(q.d["permission_details"])
                \/ q.d["review_schedule"].t # "str"

Rule3Violated(c) ==
    LET rs == c.d["reviewers"]
    IN  \/ ~IsSequence(rs)
        \/ \E i \in DOMAIN rs.items :
            LET q == rs.items[i]
            IN  \/ ~IsMapping(q)
                \/ {"name", "email"} \ DOMAIN q.d # {}
                \/ ~HasAt(q.d["email"])

Rule4Violated(c) == c.d["smtp_server"].t # "str"

\* An integer-coercible value: an integer, a boolean, a finite number, or a
\* string that spells an integer
IntegerCoercible(v) ==
    \/ v.t \in {"int", "bool"}
    \/ v.t = "float" /\ v.fk = "finite"
    \/ v.t = "str" /\ IsIntLiteral(v.sv)

Rule5Violated(c) ==
    LET v == c.d["smtp_port"]
    IN  \/ ~IntegerCoercible(v)
        \/ ~(IntValue(v) \in 1..65534)

Rule6Violated(c) == ~HasAt(c.d["sender_email"])

FirstViolatedRule(c) ==
    CASE Rule1Violated(c) -> 1
      [] ~Rule1Violated(c) /\ Rule2Violated(c) -> 2
      [] ~Rule1Violated(c) /\ ~Rule2Violated(c) /\ Rule3Violated(c) -> 3
      [] ~Rule1Violated(c) /\ ~Rule2Violated(c) /\ ~Rule3Violated(c) /\ Rule4Violated(c) -> 4
      [] ~Rule1Violated(c) /\ ~Rule2Violated(c) /\ ~Rule3Violated(c) /\ ~Rule4Violated(c)
            /\ Rule5Violated(c) -> 5
      [] ~Rule1Violated(c) /\ ~Rule2Violated(c) /\ ~Rule3Violated(c) /\ ~Rule4Violated(c)
            /\ ~Rule5Violated(c) /\ Rule6Violated(c) -> 6
      [] OTHER -> 0

\* The rule an error message of validate_config is about
RuleOfMessage(msg) ==
    CASE msg = "Missing required configuration key: " -> 1
      [] msg \in {"permissions_to_review must be a list of dictionaries.",
                  "Each permission entry in permissions_to_review must be a dictionary.",
                  "Missing required key in permission: ",
                  "permission_details must be a dictionary",
                  "review_schedule must be a string"} -> 2
      [] msg \in {"reviewers must be a list of dictionaries.",
                  "Each reviewer entry in reviewers must be a dictionary.",
                  "Missing required key in reviewer: ",
                  "Reviewer email must be a valid email address."} -> 3
      [] msg = "smtp_server must be a string." -> 4
      [] msg = "smtp_port must be an integer between 1 and 65535" -> 5
      [] msg = "Sender email must be a valid email address." -> 6
      [] OTHER -> 0

\* validate_config has been applied to the loaded document
ValidationDone == file = "json" /\ pc \notin {"start", "loaded"}

\* C6: validate_config either returns or raises ValueError for the first
\* violated rule, in the order of the rules 1 to 6; the error for a missing
\* top-level key names the first missing key.
C6_ValueErrorOfFirstViolatedRule ==
    ValidationDone =>
        LET r == FirstViolatedRule(config)
        IN  IF r = 0 THEN error = NoError
            ELSE /\ error.exc = "ValueError"
                 /\ RuleOfMessage(error.msg) = r
                 /\ (r = 1 /\ IsMapping(config)) => error.arg = FirstMissingKey(config)

\* C7: for a config that satisfies rules 1 to 4, validate_config raises
\* ValueError when smtp_port is not integer-coercible or its integer value is
\* not in 1..65534, and does not reject smtp_port otherwise.
C7_PortRejectedWithValueError ==
    (ValidationDone /\ FirstViolatedRule(config) \notin 1..4) =>
        IF Rule5Violated(config)
        THEN error.exc = "ValueError" /\ RuleOfMessage(error.msg) = 5
        ELSE error.exc \in {"none", "ValueError"} /\ RuleOfMessage(error.msg) # 5

----------------------------------------------------------------------------

\* C8: in test-email mode with a valid config, main makes exactly one
\* send_email call, to the configured sender_email, registers no job, never
\* enters the polling loop, reports the result on the console and ends with
\* exit code 0.
C8_TestEmailMode ==
    (test_email /\ ValidationDone /\ validate_config(config).exc = "none") =>
        /\ jobs = <<>>
        /\ ticks = 0
        /\ pc \in {"validated", "exited"}
        /\ pc = "validated" => sent = <<>>
        /\ pc = "exited" =>
            /\ Len(sent) = 1
            /\ sent[1].to = config.d["sender_email"]
            /\ exit_code = 0
            /\ console = IF outcome = "ok"
                         THEN <<"Test email sent successfully. Check your inbox.">>
                         ELSE <<"Failed to send test email">>

\* The test e-mail failed to send, with reviewers configured.
C8_Witness ==
    /\ test_email
    /\ pc = "exited"
    /\ error = NoError
    /\ Len(sent) = 1
    /\ outcome = "SMTPException"
    /\ Len(config.d["reviewers"].items) = 2

\* C9: a missing config file, a malformed one, or a document validate_config
\* rejects ends the process with exit code 1 before any job is registered and
\* any e-mail sent, in scheduling mode and in test-email mode.
C9_FatalStartupErrorExits1 ==
    LET fatal == \/ file # "json" /\ pc # "start"
                 \/ file = "json" /\ pc \notin {"start", "loaded"}
                        /\ validate_config(config).exc # "none"
    IN  fatal =>
            /\ pc = "exited"
            /\ exit_code = 1
            /\ error.exc # "none"
            /\ jobs = <<>>
            /\ sent = <<>>
            /\ ticks = 0

\* validate_config rejected the document in test-email mode, with an exception
\* that is no ValueError.
C9_Witness ==
    /\ test_email
    /\ pc = "exited"
    /\ file = "json"
    /\ error.exc = "TypeError"
    /\ exit_code = 1

----------------------------------------------------------------------------
(* The run loop's tick *)

\* The positions of the jobs run so far by the current run_pending, in order
Executed == [k \in DOMAIN calls |-> calls[k].job]

\* The jobs whose next-fire time was reached when run_pending started
DueJobs == {n \in DOMAIN due : due[n].next_run <= clock}

\* Only due jobs run, each at most once; when run_pending returns each due job
\* has run.
RunsExactlyDueJobs ==
    /\ \A k \in DOMAIN calls : Executed[k] \in DueJobs
    /\ \A a, b \in DOMAIN calls : a # b => Executed[a] # Executed[b]
    /\ TickDone => {Executed[k] : k \in DOMAIN calls} = DueJobs

\* A job that has run has a next-fire time after now, which for a plain
\* interval is now + interval; the other jobs are as they were.
Rescheduled ==
    \A n \in DOMAIN jobs :
        IF \E k \in DOMAIN calls : Executed[k] = n
        THEN /\ jobs[n].next_run > clock
             /\ (jobs[n].start_day = -1 /\ jobs[n].at_time = -1) =>
                    jobs[n].next_run = clock + jobs[n].interval * UnitSeconds[jobs[n].unit]
             /\ [jobs[n] EXCEPT !.next_run = 0] = [due[n] EXCEPT !.next_run = 0]
        ELSE jobs[n] = due[n]

\* run_pending is called every 60 seconds
PollsEveryMinute == clock = start + PollInterval * (ticks - 1)

InRegistrationOrder ==
    \A a, b \in DOMAIN calls : a < b => Executed[a] < Executed[b]

InNextRunOrder ==
    \A a, b \in DOMAIN calls : a < b =>
        \/ due[Executed[a]].next_run < due[Executed[b]].next_run
        \/ /\ due[Executed[a]].next_run = due[Executed[b]].next_run
           /\ Executed[a] < Executed[b]

\* C10 as claimed: a tick runs exactly the jobs whose next-fire time is <= now,
\* one at a time in registration order, each once, and reschedules each from its
\* trigger rule before the 60 second sleep.
C10_RunsDueJobsInRegistrationOrder ==
    pc = "run_job" =>
        /\ RunsExactlyDueJobs
        /\ Rescheduled
        /\ PollsEveryMinute
        /\ InRegistrationOrder

\* C10 amended: a tick runs exactly the jobs whose next-fire time is <= now,
\* one at a time in ascending order of next-fire time (registration order among
\* equal times), each once, and reschedules each from its trigger rule before
\* the 60 second sleep.
C10_RunsDueJobsInNextRunOrder ==
    pc = "run_job" =>
        /\ RunsExactlyDueJobs
        /\ Rescheduled
        /\ PollsEveryMinute
        /\ InNextRunOrder

\* A tick ran a later-registered job before an earlier-registered one.
C10_Witness ==
    /\ TickDone
    /\ Len(calls) = 2
    /\ Executed[1] > Executed[2]
    /\ due[Executed[1]].next_run < due[Executed[2]].next_run

=============================================================================
